---- MODULE Spec2Model ----
(***************************************************************************)
(* The ingest gateway's POST /ingest handler                               *)
(* (internal/gateway/server/handlers.go, IngestHandler) together with the  *)
(* topic-creation helper (cmd/gateway/main.go, createTopicIfNotExists).    *)
(*                                                                         *)
(* One handler invocation is a sequence of steps, cut at the calls it      *)
(* makes to its collaborators: the health checker, the credential          *)
(* verifier, the stream database and the broker.  The collaborators are    *)
(* not code of this repository; each call answers with any result the      *)
(* collaborator can give in the current state of the database and broker.  *)
(* Texts (error strings, response bodies) are TLA+ strings, and the        *)
(* substring tests of the code are computed character by character.        *)
(***************************************************************************)
EXTENDS Naturals, Sequences, FiniteSets, TLC

VARIABLES
    health,       \* the health checker's cached view of the dependencies
    topics,       \* the topics that exist at the broker
    reqs,         \* per handler slot: the request in flight and what it did
    maxInFlight,  \* how many handlers the server runs at the same time
    served,       \* requests completed so far
    lastOutcome   \* the status the most recently completed request was answered
                  \* with: <<code>>, or <<>> when no response was written

vars == <<health, topics, reqs, maxInFlight, served, lastOutcome>>

(***************************************************************************)
(* Bounds of the model.                                                    *)
(***************************************************************************)
MaxServed == 2

Slots == {1, 2}

(***************************************************************************)
(* Texts.                                                                  *)
(***************************************************************************)
Nil == "<nil>"

\* strings.Contains(s, sub)
Contains(s, sub) ==
    \E i \in 1..(Len(s) + 1) :
        /\ i + Len(sub) - 1 <= Len(s)
        /\ SubSeq(s, i, i + Len(sub) - 1) = sub

UpperLetters == "ABCDEFGHIJKLMNOPQRSTUVWXYZ"
LowerLetters == "abcdefghijklmnopqrstuvwxyz"

\* one character, lower-cased
LowerChar(c) ==
    IF \E k \in 1..Len(UpperLetters) : SubSeq(UpperLetters, k, k) = c
    THEN LET k == CHOOSE k \in 1..Len(UpperLetters) : SubSeq(UpperLetters, k, k) = c
         IN  SubSeq(LowerLetters, k, k)
    ELSE c

RECURSIVE ToLower(_)
ToLower(s) ==
    IF Len(s) = 0 THEN s
    ELSE LowerChar(SubSeq(s, 1, 1)) \o ToLower(SubSeq(s, 2, Len(s)))

\* a substring test that ignores letter case
ContainsFold(s, sub) == Contains(ToLower(s), ToLower(sub))

(***************************************************************************)
(* HTTP status codes used by the handler.                                  *)
(***************************************************************************)
StatusAccepted            == 202
StatusBadRequest          == 400
StatusUnauthorized        == 401
StatusNotFound            == 404
StatusMethodNotAllowed    == 405
StatusInternalServerError == 500
StatusServiceUnavailable  == 503

(***************************************************************************)
(* Requests.  An optional value (a JSON field that may be absent, a Go     *)
(* pointer that may be nil) is a sequence of length 0 or 1.                *)
(***************************************************************************)
Methods == {"POST", "GET"}

StreamIds  == {"s1", "s2"}
RequestIds == {"r1", "r2"}

\* ingestv1.MirroredRequest
MirroredRequests == [RequestId : RequestIds, Method : {"GET"}, Path : {"/x"}]

Opt(S) == {<<>>} \cup {<<x>> : x \in S}

\* what arrives as r.Body
Bodies ==
    [kind : {"json"}, stream_id : Opt(StreamIds), request : Opt(MirroredRequests)]
    \cup [kind : {"bad_char", "truncated"}, stream_id : {<<>>}, request : {<<>>}]

\* the Authorization header; alice belongs to the tenant of s1, bob to that of s2
AuthHeaders == {"", "Basic alice:secret", "Basic alice:wrong", "Basic bob:secret"}

\* ingestv1.IngestRequest, zero value
ZeroIngestRequest == [StreamId |-> "", Request |-> <<>>]

\* json.NewDecoder(r.Body).Decode(&req): the error, or Nil
DecodeError(body) ==
    CASE body.kind = "bad_char"  -> "invalid character 'b' looking for beginning of object key string"
      [] body.kind = "truncated" -> "unexpected EOF"
      [] OTHER                   -> Nil

\* json.NewDecoder(r.Body).Decode(&req): the decoded request; an absent field
\* keeps its zero value
Decode(body) ==
    [StreamId |-> IF body.stream_id = <<>> THEN "" ELSE body.stream_id[1],
     Request  |-> body.request]

\* json.Marshal(req.Request); a nil pointer marshals to null, without an error
Marshal(request) ==
    IF request = <<>> THEN "null"
    ELSE "{\"method\":\"" \o request[1].Method \o "\",\"path\":\"" \o request[1].Path
         \o "\",\"request_id\":\"" \o request[1].RequestId \o "\"}"

\* http.Error(w, msg, code) writes msg and a newline
ErrorBody(msg) == msg \o "\n"

(***************************************************************************)
(* Collaborators.                                                          *)
(***************************************************************************)
\* the streams of the database and their topics
StreamTopic(streamId) ==
    CASE streamId = "s1" -> "t1"
      [] streamId = "s2" -> "t2"
      [] OTHER           -> Nil

Topics == {"t1", "t2"}

\* the write permission the credential store grants
Grants(header, streamId, permission) ==
    /\ permission = "write"
    /\ \/ header = "Basic alice:secret" /\ streamId = "s1"
       \/ header = "Basic bob:secret"   /\ streamId = "s2"

\* gateway.AuthenticateHTTPRequest: the errors it can return (Nil: none)
AuthResults(header, streamId, permission) ==
    CASE header = ""                              -> {"missing authorization header"}
      [] header = "Basic alice:wrong"             -> {"invalid credentials", "verifier error"}
      [] ~Grants(header, streamId, permission)    -> {"not authorized for stream", "verifier error"}
      [] OTHER                                     -> {Nil, "verifier error"}

\* dbcommon.GetStreamTopic: <<topic, error>>
ResolveResults(streamId) ==
    (IF StreamTopic(streamId) # Nil THEN {<<StreamTopic(streamId), Nil>>} ELSE {})
    \cup {<<"", "stream not found">>, <<"", "driver: bad connection">>}

\* the broker's phrasings of a write to a topic it does not have
MissingTopicTexts ==
    {"Unknown Topic Or Partition", "topic does not exist", "UnknownTopicOrPartition",
     "no such topic or partition", "Topic Does Not Exist", "unknown topic"}

OtherWriteTexts == {"connection refused"}

\* Writer.WriteMessages: the errors it can return for a topic (Nil: written).
\* A writer whose metadata is stale can report a topic missing that exists.
WriteResults(topic) ==
    (IF topic \in topics THEN {Nil} ELSE {}) \cup MissingTopicTexts \cup OtherWriteTexts

\* controllerConn.CreateTopics: the broker's answers (Nil: created)
CreateTopicsResults(topic) ==
    IF topic \in topics
    THEN {"topic already exists", "TOPIC_ALREADY_EXISTS", "not controller"}
    ELSE {Nil, "not controller"}

\* the error of a call whose context was cancelled
CtxCanceled == "context canceled"

\* r.Context() is done: the client went away, after cancelledAt[1] calls
CtxDone(q) == q.cancelledAt # <<>>

\* the results of a call that was given the request's context: it is aborted
\* once the context is done
WithContext(q, results) == IF CtxDone(q) THEN {CtxCanceled} ELSE results

\* HealthChecker.IsReady
IsReady == health.database_ok /\ health.broker_ok

BrokerURL == "localhost:9092"

(***************************************************************************)
(* The handler's bookkeeping.                                              *)
(***************************************************************************)
Digits == "0123456789"

\* strconv.Itoa, for the numbers the handler formats
RECURSIVE Itoa(_)
Itoa(n) ==
    IF n < 10 THEN SubSeq(Digits, n + 1, n + 1)
    ELSE Itoa(n \div 10) \o SubSeq(Digits, (n % 10) + 1, (n % 10) + 1)

BoolText(b) == IF b THEN "true" ELSE "false"

\* one call to a collaborator: what was called, with what, and the values it
\* returned (the error last)
Call(fn, args, res) == [fn |-> fn, args |-> args, res |-> res]

\* a handler slot with no request in it
IdleReq ==
    [pc          |-> "idle",
     method      |-> "",
     body        |-> [kind |-> "", stream_id |-> <<>>, request |-> <<>>],
     header      |-> "",
     req         |-> ZeroIngestRequest,
     streamID    |-> "",
     statusCode  |-> StatusAccepted,
     topic       |-> "",
     messageData |-> "",
     errStr      |-> "",
     resp        |-> <<>>,
     calls       |-> <<>>,
     metrics     |-> <<>>,
     cancelledAt |-> <<>>]

\* the handler's locals on entry (handlers.go 22-24)
NewReq(method, body, header) ==
    [IdleReq EXCEPT !.pc = "begin", !.method = method, !.body = body, !.header = header]

LogCall(q, fn, args, res) == [q EXCEPT !.calls = Append(@, Call(fn, args, res))]

Meter(q, event) == [q EXCEPT !.metrics = Append(@, event)]

\* the deferred metrics.RecordIngestRequest, run when the handler returns or panics
Deferred(q) ==
    Meter(q, <<"ingest_request", q.method, "/ingest", Itoa(q.statusCode)>>)

\* return
Return(q) == [Deferred(q) EXCEPT !.pc = "done"]

\* statusCode = code; http.Error(w, msg, statusCode)
Fail(q, code, msg) ==
    [q EXCEPT !.statusCode = code,
              !.resp = Append(@, [code |-> code, body |-> ErrorBody(msg)])]

\* the success exit (handlers.go 122-125)
Success(q) ==
    Return([Meter(q, <<"message_published", q.streamID>>)
               EXCEPT !.resp = Append(@, [code |-> StatusAccepted, body |-> "OK"])])

(***************************************************************************)
(* The handler, step by step.  Each After... operator is the code that     *)
(* follows one collaborator call: q is the request, err what the call      *)
(* returned.                                                               *)
(***************************************************************************)
\* FirstMessage keyed by the stream instead of the request
FirstMessageKeyedByStream(q) == <<q.topic, q.req.StreamId, q.messageData>>

\* handlers.go 83-87: the kafka.Message of the first write (topic, key, value)
FirstMessage(q) == <<q.topic, q.req.Request[1].RequestId, q.messageData>>

\* handlers.go 102-106: the kafka.Message of the retried write
RetryMessage(q) == <<q.topic, q.req.Request[1].RequestId, q.messageData>>

\* MethodAllowed letting every method through
MethodAllowedAny(method) == TRUE

\* handlers.go 32: r.Method != http.MethodPost
MethodAllowed(method) == method = "POST"

\* Entry going on with the zero request when the body does not decode
EntryIgnoresDecodeError(q, ready) ==
    IF ~MethodAllowed(q.method)
    THEN Return(Fail(q, StatusMethodNotAllowed, "Method not allowed"))
    ELSE LET q1 == LogCall(q, "IsReady", <<>>, <<BoolText(ready)>>) IN
         IF ~ready
         THEN Return(Fail(q1, StatusServiceUnavailable,
                          "Service unavailable - dependencies not ready"))
         ELSE [q1 EXCEPT !.req = IF DecodeError(q1.body) # Nil THEN ZeroIngestRequest
                                  ELSE Decode(q1.body),
                         !.streamID = IF DecodeError(q1.body) # Nil THEN ""
                                      ELSE Decode(q1.body).StreamId,
                         !.pc = "auth"]

\* Entry without the readiness gate
EntryWithoutGate(q, ready) ==
    IF ~MethodAllowed(q.method)
    THEN Return(Fail(q, StatusMethodNotAllowed, "Method not allowed"))
    ELSE IF DecodeError(q.body) # Nil
    THEN Return(Fail(q, StatusBadRequest, "Invalid request: " \o DecodeError(q.body)))
    ELSE [q EXCEPT !.req = Decode(q.body),
                   !.streamID = Decode(q.body).StreamId,
                   !.pc = "auth"]

\* handlers.go 32-52: method check, readiness check, decoding
Entry(q, ready) ==
    IF ~MethodAllowed(q.method)
    THEN Return(Fail(q, StatusMethodNotAllowed, "Method not allowed"))
    ELSE LET q1 == LogCall(q, "IsReady", <<>>, <<BoolText(ready)>>) IN
         IF ~ready
         THEN Return(Fail(q1, StatusServiceUnavailable,
                          "Service unavailable - dependencies not ready"))
         ELSE IF DecodeError(q1.body) # Nil
         THEN Return(Fail(q1, StatusBadRequest,
                          "Invalid request: " \o DecodeError(q1.body)))
         ELSE [q1 EXCEPT !.req = Decode(q1.body),
                         !.streamID = Decode(q1.body).StreamId,
                         !.pc = "auth"]

\* AfterAuth without the early return: the error is logged and the handler goes on
AfterAuthContinues(q, err) == [q EXCEPT !.pc = "resolve"]

\* AfterAuth telling the caller why the verification failed
AfterAuthDisclosesCause(q, err) ==
    IF err # Nil
    THEN Return(Fail(Meter(q, <<"auth_failure", "frkr-ingest-gateway", "auth_failed">>),
                     StatusUnauthorized, "Unauthorized: " \o err))
    ELSE [q EXCEPT !.pc = "resolve"]

\* handlers.go 57-63
AfterAuth(q, err) ==
    IF err # Nil
    THEN Return(Fail(Meter(q, <<"auth_failure", "frkr-ingest-gateway", "auth_failed">>),
                     StatusUnauthorized, "Unauthorized"))
    ELSE [q EXCEPT !.pc = "resolve"]

\* AfterResolve without the early return: the handler goes on with the topic it got
AfterResolveContinues(q, topic, err) == [q EXCEPT !.topic = topic, !.pc = "write"]

\* AfterResolve answering a resolver error as an internal error
AfterResolveInternalError(q, topic, err) ==
    IF err # Nil
    THEN Return(Fail(q, StatusInternalServerError, "Stream not found"))
    ELSE [q EXCEPT !.topic = topic, !.pc = "write"]

\* AfterResolve naming the topic after the client's stream_id
AfterResolveTopicFromClient(q, topic, err) ==
    IF err # Nil
    THEN Return(Fail(q, StatusNotFound, "Stream not found"))
    ELSE [q EXCEPT !.topic = q.req.StreamId, !.pc = "write"]

\* handlers.go 66-72
AfterResolve(q, topic, err) ==
    IF err # Nil
    THEN Return(Fail(q, StatusNotFound, "Stream not found"))
    ELSE [q EXCEPT !.topic = topic, !.pc = "write"]

\* handlers.go 91: the test for a missing topic
IsMissingTopicError(errStr) ==
    \/ Contains(errStr, "Unknown Topic")
    \/ Contains(errStr, "does not exist")
    \/ Contains(errStr, "UnknownTopic")
    \/ Contains(errStr, "topic or partition")

\* AfterWrite attempting creation after any failed write
AfterWriteAlwaysCreates(q, err) ==
    IF err = Nil THEN Success(q)
    ELSE [q EXCEPT !.errStr = err, !.pc = "create"]

\* handlers.go 88-91 and 114-126
AfterWrite(q, err) ==
    IF err = Nil THEN Success(q)
    ELSE IF IsMissingTopicError(err)
    THEN [q EXCEPT !.errStr = err, !.pc = "create"]
    ELSE Return(Fail(Meter([q EXCEPT !.errStr = err],
                           <<"publish_error", q.streamID, "write_failed">>),
                     StatusInternalServerError, "Failed to ingest request: " \o err))

\* IsAlreadyExists answering no: an existing topic counts as a failed creation
IsAlreadyExistsNever(errStr) == FALSE

\* IsAlreadyExists without the broker's error-code spelling
IsAlreadyExistsTextOnly(errStr) == Contains(errStr, "already exists")

\* main.go 229: the test for a topic that is already there
IsAlreadyExists(errStr) ==
    \/ Contains(errStr, "already exists")
    \/ Contains(errStr, "TOPIC_ALREADY_EXISTS")

\* main.go 199-236: createTopicIfNotExists, given the step that failed (if any)
\* and the error it failed with
CreateTopicError(stage, err) ==
    CASE stage = "dial"            -> "failed to connect to broker: " \o err
      [] stage = "controller"      -> "failed to get controller: " \o err
      [] stage = "controller_dial" -> "failed to connect to controller: " \o err
      [] OTHER ->
            IF err = Nil THEN Nil
            ELSE IF IsAlreadyExists(err) THEN Nil
            ELSE "failed to create topic: " \o err

\* AfterCreate without the early return: the write is retried whatever creation said
AfterCreateRetriesAnyway(q, createErr) == [q EXCEPT !.pc = "retry"]

\* handlers.go 94-100
AfterCreate(q, createErr) ==
    IF createErr # Nil
    THEN Return(Fail(Meter(q, <<"publish_error", q.streamID, "topic_creation_failed">>),
                     StatusInternalServerError,
                     "Topic not found and creation failed: " \o createErr))
    ELSE [q EXCEPT !.pc = "retry"]

\* AfterRetry retrying again until the write succeeds
AfterRetryRetriesAgain(q, err) ==
    IF err # Nil THEN [q EXCEPT !.pc = "retry"] ELSE Success(q)

\* AfterRetry ending the process on a failed retry, as log.Fatalf would
AfterRetryFatal(q, err) ==
    IF err # Nil
    THEN [q EXCEPT !.pc = "fatal"]
    ELSE Success(q)

\* AfterRetry answering Accepted whatever the retried write returned
AfterRetryAcceptsAnyway(q, err) == Success(q)

\* handlers.go 107-113 and 122-125
AfterRetry(q, err) ==
    IF err # Nil
    THEN Return(Fail(Meter(q, <<"publish_error", q.streamID, "write_retry_failed">>),
                     StatusInternalServerError, "Failed to ingest request: " \o err))
    ELSE Success(q)

(***************************************************************************)
(* Actions.                                                                *)
(***************************************************************************)
InFlight == {r \in Slots : reqs[r].pc # "idle"}

\* a request arrives and the handler runs up to its first external call
Begin(r) ==
    /\ reqs[r].pc = "idle"
    /\ \A o \in Slots : o < r => reqs[o].pc # "idle"
    /\ Cardinality(InFlight) < maxInFlight
    /\ served + Cardinality(InFlight) < MaxServed
    /\ \E method \in Methods, body \in Bodies, header \in AuthHeaders :
          reqs' = [reqs EXCEPT ![r] = Entry(NewReq(method, body, header), IsReady)]
    /\ UNCHANGED <<health, topics, maxInFlight, served, lastOutcome>>

\* handlers.go 55-56; the verifier is given ctx
Authenticate(r) ==
    /\ reqs[r].pc = "auth"
    /\ LET q == reqs[r] IN
       \E err \in WithContext(q, AuthResults(q.header, q.req.StreamId, "write")) :
          reqs' = [reqs EXCEPT ![r] =
                      AfterAuth(LogCall(q, "AuthenticateHTTPRequest",
                                        <<q.header, q.req.StreamId, "write">>, <<err>>), err)]
    /\ UNCHANGED <<health, topics, maxInFlight, served, lastOutcome>>

\* handlers.go 66; the lookup is given the database handle and no context
Resolve(r) ==
    /\ reqs[r].pc = "resolve"
    /\ LET q == reqs[r] IN
       \E res \in ResolveResults(q.req.StreamId) :
          reqs' = [reqs EXCEPT ![r] =
                      AfterResolve(LogCall(q, "GetStreamTopic", <<q.req.StreamId>>, res),
                                   res[1], res[2])]
    /\ UNCHANGED <<health, topics, maxInFlight, served, lastOutcome>>

\* handlers.go 75-87: serialize, build the message, write it.  json.Marshal
\* returns no error for a MirroredRequest (strings and string maps), so the
\* branch at 76-80 is never taken.
Write(r) ==
    /\ reqs[r].pc = "write"
    /\ LET q == [reqs[r] EXCEPT !.messageData = Marshal(reqs[r].req.Request)] IN
       IF q.req.Request = <<>>
       THEN \* req.Request.RequestId dereferences a nil pointer: the handler panics,
            \* the deferred metric runs, net/http recovers and drops the connection
            reqs' = [reqs EXCEPT ![r] = [Deferred(q) EXCEPT !.pc = "panicked"]]
       ELSE \E err \in WithContext(q, WriteResults(q.topic)) :
               reqs' = [reqs EXCEPT ![r] =
                           AfterWrite(LogCall(q, "WriteMessages", FirstMessage(q), <<err>>),
                                      err)]
    /\ UNCHANGED <<health, topics, maxInFlight, served, lastOutcome>>

\* handlers.go 94: gateway.CreateTopicIfNotExists(s.BrokerURL, topic); it is
\* given no context, and dials the broker without one (main.go 200, 211)
CreateTopic(r) ==
    /\ reqs[r].pc = "create"
    /\ LET q == reqs[r] IN
       \/ \E stage \in {"dial", "controller", "controller_dial"} :
             /\ reqs' = [reqs EXCEPT ![r] =
                   LET e == CreateTopicError(stage, "connection refused")
                   IN  AfterCreate(LogCall(q, "CreateTopicIfNotExists",
                                           <<BrokerURL, q.topic>>, <<e>>), e)]
             /\ topics' = topics
       \/ \E ans \in CreateTopicsResults(q.topic) :
             /\ reqs' = [reqs EXCEPT ![r] =
                   LET e == CreateTopicError("create", ans)
                   IN  AfterCreate(LogCall(LogCall(q, "CreateTopics", <<q.topic>>, <<ans>>),
                                           "CreateTopicIfNotExists",
                                           <<BrokerURL, q.topic>>, <<e>>), e)]
             /\ topics' = IF ans = Nil THEN topics \cup {q.topic} ELSE topics
    /\ UNCHANGED <<health, maxInFlight, served, lastOutcome>>

\* Retry marking the broker unhealthy when the retried write fails
RetryMarksBrokerDown(r) ==
    /\ reqs[r].pc = "retry"
    /\ LET q == reqs[r] IN
       \E err \in WithContext(q, WriteResults(q.topic)) :
          /\ reqs' = [reqs EXCEPT ![r] =
                         AfterRetry(LogCall(q, "WriteMessages", RetryMessage(q), <<err>>), err)]
          /\ health' = IF err # Nil THEN [health EXCEPT !.broker_ok = FALSE] ELSE health
    /\ UNCHANGED <<topics, maxInFlight, served, lastOutcome>>

\* handlers.go 102-106; the write is given r.Context()
Retry(r) ==
    /\ reqs[r].pc = "retry"
    /\ LET q == reqs[r] IN
       \E err \in WithContext(q, WriteResults(q.topic)) :
          reqs' = [reqs EXCEPT ![r] =
                      AfterRetry(LogCall(q, "WriteMessages", RetryMessage(q), <<err>>), err)]
    /\ UNCHANGED <<health, topics, maxInFlight, served, lastOutcome>>

\* the response is out (or the connection dropped); the slot is free again
Finish(r) ==
    /\ reqs[r].pc \in {"done", "panicked"}
    /\ reqs' = [reqs EXCEPT ![r] = IdleReq]
    /\ served' = served + 1
    /\ lastOutcome' = [i \in DOMAIN reqs[r].resp |-> reqs[r].resp[i].code]
    /\ UNCHANGED <<health, topics, maxInFlight>>

\* the client gives up (closes the connection, times out) while the handler is
\* waiting on a collaborator: net/http cancels r.Context()
ClientCancels(r) ==
    /\ reqs[r].pc \in {"auth", "resolve", "write", "create", "retry"}
    /\ ~CtxDone(reqs[r])
    /\ reqs' = [reqs EXCEPT ![r].cancelledAt = <<Len(reqs[r].calls)>>]
    /\ UNCHANGED <<health, topics, maxInFlight, served, lastOutcome>>

\* the health checker's background check of the database and the broker
RefreshHealth ==
    /\ \E h \in [database_ok : BOOLEAN, broker_ok : BOOLEAN] :
          /\ h # health
          /\ health' = h
    /\ UNCHANGED <<topics, reqs, maxInFlight, served, lastOutcome>>

\* someone else (another gateway, an operator) creates a topic at the broker
TopicCreatedElsewhere ==
    /\ \E t \in Topics \ topics : topics' = topics \cup {t}
    /\ UNCHANGED <<health, reqs, maxInFlight, served, lastOutcome>>

Init ==
    /\ health = [database_ok |-> FALSE, broker_ok |-> FALSE]
    /\ topics = {}
    /\ reqs = [r \in Slots |-> IdleReq]
    /\ maxInFlight = 1
    /\ served = 0
    /\ lastOutcome = <<>>

Next ==
    \/ \E r \in Slots :
          \/ Begin(r)
          \/ Authenticate(r)
          \/ Resolve(r)
          \/ Write(r)
          \/ CreateTopic(r)
          \/ Retry(r)
          \/ ClientCancels(r)
          \/ Finish(r)
    \/ RefreshHealth
    \/ TopicCreatedElsewhere

Spec == Init /\ [][Next]_vars

(***************************************************************************)
(* Two handlers at a time: the server runs one goroutine per connection.   *)
(* The requests are the ones that can race for a topic: well-formed POSTs  *)
(* for stream s1 with its owner's credentials, arriving while the gate is  *)
(* ready.                                                                  *)
(***************************************************************************)
RacingBodies == {b \in Bodies : b.kind = "json" /\ b.stream_id = <<"s1">> /\ b.request # <<>>}

BeginRacing(r) ==
    /\ reqs[r].pc = "idle"
    /\ \A o \in Slots : o < r => reqs[o].pc # "idle"
    /\ Cardinality(InFlight) < maxInFlight
    /\ served + Cardinality(InFlight) < MaxServed
    /\ \E body \in RacingBodies :
          reqs' = [reqs EXCEPT ![r] =
                      Entry(NewReq("POST", body, "Basic alice:secret"), IsReady)]
    /\ UNCHANGED <<health, topics, maxInFlight, served, lastOutcome>>

InitConc ==
    /\ health = [database_ok |-> TRUE, broker_ok |-> TRUE]
    /\ topics = {}
    /\ reqs = [r \in Slots |-> IdleReq]
    /\ maxInFlight = 2
    /\ served = 0
    /\ lastOutcome = <<>>

NextConc ==
    \/ \E r \in Slots :
          \/ BeginRacing(r)
          \/ Authenticate(r)
          \/ Resolve(r)
          \/ Write(r)
          \/ CreateTopic(r)
          \/ Retry(r)
          \/ Finish(r)
    \/ TopicCreatedElsewhere

SpecConc == InitConc /\ [][NextConc]_vars

(***************************************************************************)
(* Reading a request's record.                                             *)
(***************************************************************************)
\* the positions in q's call log of the calls to fn
CallsTo(q, fn) == {i \in DOMAIN q.calls : q.calls[i].fn = fn}

\* the error a call returned
ErrOf(c) == c.res[Len(c.res)]

\* exactly one response was written, with this status and body
Answered(q, code, body) == q.resp = <<[code |-> code, body |-> body]>>

\* the envelope carries a stream_id and a request
WellFormed(body) == body.kind = "json" /\ body.stream_id # <<>> /\ body.request # <<>>

PublisherCalls == {"WriteMessages", "CreateTopicIfNotExists", "CreateTopics"}

(***************************************************************************)
(* C1: when the credential verification of a request returns an error,     *)
(* the request is answered 401 Unauthorized and has called neither the     *)
(* topic resolver nor the publisher nor topic creation.                    *)
(***************************************************************************)
C1_UnauthorizedStopsPipeline ==
    \A r \in Slots :
        LET q == reqs[r] IN
        (\E i \in CallsTo(q, "AuthenticateHTTPRequest") : ErrOf(q.calls[i]) # Nil)
        => /\ q.pc = "done"
           /\ Answered(q, StatusUnauthorized, ErrorBody("Unauthorized"))
           /\ \A fn \in PublisherCalls \cup {"GetStreamTopic"} : CallsTo(q, fn) = {}

C1_Witness ==
    \E r \in Slots :
        LET q == reqs[r] IN
        /\ q.method = "POST"
        /\ q.header = ""
        /\ WellFormed(q.body)
        /\ \E i \in CallsTo(q, "AuthenticateHTTPRequest") : ErrOf(q.calls[i]) # Nil
        /\ Answered(q, StatusUnauthorized, ErrorBody("Unauthorized"))

(***************************************************************************)
(* C2: a POST that arrives while the readiness gate reports not-ready is   *)
(* answered 503 whatever its body and credentials, and the only            *)
(* collaborator it has called is the gate itself.                          *)
(***************************************************************************)
C2_NotReadyIsUnavailable ==
    [][\A r \in Slots :
          (reqs[r].pc = "idle" /\ reqs'[r].pc # "idle"
             /\ reqs'[r].method = "POST" /\ ~IsReady)
          => /\ reqs'[r].pc = "done"
             /\ Answered(reqs'[r], StatusServiceUnavailable,
                         ErrorBody("Service unavailable - dependencies not ready"))
             /\ \A i \in DOMAIN reqs'[r].calls : reqs'[r].calls[i].fn = "IsReady"]_vars

C2_Witness ==
    \E r \in Slots :
        LET q == reqs[r] IN
        /\ q.pc = "done"
        /\ q.method = "POST"
        /\ WellFormed(q.body)
        /\ Grants(q.header, q.body.stream_id[1], "write")
        /\ q.calls = <<Call("IsReady", <<>>, <<"false">>)>>
        /\ Answered(q, StatusServiceUnavailable,
                    ErrorBody("Service unavailable - dependencies not ready"))

(***************************************************************************)
(* C3: every topic-creation call of a request comes after a successful     *)
(* credential verification of that request for the envelope's stream_id    *)
(* with permission write, and after a successful resolver call for that    *)
(* stream_id, and creates the topic the resolver returned.                 *)
(***************************************************************************)
C3_CreateOnlyAfterAuthAndResolve ==
    \A r \in Slots :
        LET q == reqs[r] IN
        \A i \in CallsTo(q, "CreateTopicIfNotExists") \cup CallsTo(q, "CreateTopics") :
            \E s \in StreamIds :
                /\ q.body.stream_id = <<s>>
                /\ \E j \in 1..(i - 1), k \in 1..(i - 1) :
                      /\ j < k
                      /\ q.calls[j] = Call("AuthenticateHTTPRequest",
                                           <<q.header, s, "write">>, <<Nil>>)
                      /\ q.calls[k].fn = "GetStreamTopic"
                      /\ q.calls[k].args = <<s>>
                      /\ ErrOf(q.calls[k]) = Nil
                      /\ q.calls[i].args[Len(q.calls[i].args)] = q.calls[k].res[1]

C3_Witness ==
    \E r \in Slots :
        /\ CallsTo(reqs[r], "CreateTopicIfNotExists") # {}
        /\ CallsTo(reqs[r], "CreateTopics") # {}

C5_UnknownStreamIsNotFound ==
    \A r \in Slots :
        LET q == reqs[r] IN
        ( /\ \E a \in CallsTo(q, "AuthenticateHTTPRequest") : ErrOf(q.calls[a]) = Nil
          /\ \E k \in CallsTo(q, "GetStreamTopic") : ErrOf(q.calls[k]) # Nil )
        => /\ q.pc = "done"
           /\ Answered(q, StatusNotFound, ErrorBody("Stream not found"))
           /\ \A fn \in PublisherCalls : CallsTo(q, fn) = {}

C5_Witness ==
    \E r \in Slots :
        LET q == reqs[r] IN
        /\ \E a \in CallsTo(q, "AuthenticateHTTPRequest") : ErrOf(q.calls[a]) = Nil
        /\ \E k \in CallsTo(q, "GetStreamTopic") :
              q.calls[k].res = <<"", "stream not found">>
        /\ Answered(q, StatusNotFound, ErrorBody("Stream not found"))

\* the positions of q's publish attempts, first and second
FirstWrite(q)  == CHOOSE w \in CallsTo(q, "WriteMessages") :
                      \A v \in CallsTo(q, "WriteMessages") : w <= v
SecondWrite(q) == CHOOSE w \in CallsTo(q, "WriteMessages") :
                      \A v \in CallsTo(q, "WriteMessages") : v <= w

NumWrites(q) == Cardinality(CallsTo(q, "WriteMessages"))

\* exactly one response was written, with this status
AnsweredCode(q, code) == Len(q.resp) = 1 /\ q.resp[1].code = code

(***************************************************************************)
(* C6: when the first publish of a request fails with an error text that   *)
(* contains "does not exist", "unknown topic" or "topic or partition" in   *)
(* any letter case, the request attempts topic creation before it fails.   *)
(***************************************************************************)
C6_AnyCaseMarkerLeadsToCreation ==
    \A r \in Slots :
        LET q == reqs[r] IN
        ( /\ q.pc = "done"
          /\ NumWrites(q) > 0
          /\ ErrOf(q.calls[FirstWrite(q)]) # Nil
          /\ \/ ContainsFold(ErrOf(q.calls[FirstWrite(q)]), "does not exist")
             \/ ContainsFold(ErrOf(q.calls[FirstWrite(q)]), "unknown topic")
             \/ ContainsFold(ErrOf(q.calls[FirstWrite(q)]), "topic or partition") )
        => CallsTo(q, "CreateTopicIfNotExists") # {}

(***************************************************************************)
(* C7: when the first publish of a request fails with an error the         *)
(* handler does not classify as a missing topic, the request is answered   *)
(* 500 at once: no topic creation is attempted and no second publish made. *)
(***************************************************************************)
C7_OtherWriteErrorFailsAtOnce ==
    \A r \in Slots :
        LET q == reqs[r] IN
        ( /\ NumWrites(q) > 0
          /\ ErrOf(q.calls[FirstWrite(q)]) # Nil
          /\ ~IsMissingTopicError(ErrOf(q.calls[FirstWrite(q)])) )
        => /\ q.pc = "done"
           /\ AnsweredCode(q, StatusInternalServerError)
           /\ NumWrites(q) = 1
           /\ CallsTo(q, "CreateTopicIfNotExists") = {}
           /\ CallsTo(q, "CreateTopics") = {}

C7_Witness ==
    \E r \in Slots :
        LET q == reqs[r] IN
        /\ NumWrites(q) = 1
        /\ ErrOf(q.calls[FirstWrite(q)]) = "connection refused"
        /\ AnsweredCode(q, StatusInternalServerError)

(***************************************************************************)
(* C8: when the first publish failed as a missing topic and the broker     *)
(* then created the topic or answered that it already exists, the publish  *)
(* is retried exactly once, and a successful retry is answered 202.        *)
(***************************************************************************)
C8_CreatedThenRetriedOnce ==
    \A r \in Slots :
        LET q == reqs[r] IN
        \A c \in CallsTo(q, "CreateTopics") :
            ( \/ ErrOf(q.calls[c]) = Nil
              \/ Contains(ErrOf(q.calls[c]), "already exists")
              \/ Contains(ErrOf(q.calls[c]), "TOPIC_ALREADY_EXISTS") )
            => /\ q.pc \in {"retry", "done"}
               /\ FirstWrite(q) < c
               /\ ErrOf(q.calls[FirstWrite(q)]) # Nil
               /\ q.pc = "retry" => NumWrites(q) = 1
               /\ q.pc = "done" =>
                     /\ NumWrites(q) = 2
                     /\ SecondWrite(q) > c
                     /\ ErrOf(q.calls[SecondWrite(q)]) = Nil
                           => Answered(q, StatusAccepted, "OK")

C8_Witness ==
    \E r \in Slots :
        LET q == reqs[r] IN
        /\ q.pc = "done"
        /\ \E c \in CallsTo(q, "CreateTopics") :
              ErrOf(q.calls[c]) = "TOPIC_ALREADY_EXISTS"
        /\ NumWrites(q) = 2
        /\ ErrOf(q.calls[SecondWrite(q)]) = Nil
        /\ Answered(q, StatusAccepted, "OK")

(***************************************************************************)
(* C9: when topic creation fails for a reason other than the topic         *)
(* already existing (the broker or its controller cannot be reached, or    *)
(* the broker refuses the creation), the request is answered 500 with the  *)
(* creation error and the publish is not retried.                          *)
(***************************************************************************)
C9_CreationFailureIsFinal ==
    \A r \in Slots :
        LET q == reqs[r] IN
        \A c \in CallsTo(q, "CreateTopicIfNotExists") :
            ( \/ c - 1 \notin CallsTo(q, "CreateTopics")
              \/ /\ c - 1 \in CallsTo(q, "CreateTopics")
                 /\ ErrOf(q.calls[c - 1]) # Nil
                 /\ ~Contains(ErrOf(q.calls[c - 1]), "already exists")
                 /\ ~Contains(ErrOf(q.calls[c - 1]), "TOPIC_ALREADY_EXISTS") )
            => /\ q.pc = "done"
               /\ ErrOf(q.calls[c]) # Nil
               /\ Answered(q, StatusInternalServerError,
                           ErrorBody("Topic not found and creation failed: "
                                     \o ErrOf(q.calls[c])))
               /\ NumWrites(q) = 1
               /\ c = Len(q.calls)

C9_Witness ==
    \E r \in Slots :
        LET q == reqs[r] IN
        /\ q.pc = "done"
        /\ \E c \in CallsTo(q, "CreateTopics") : ErrOf(q.calls[c]) = "not controller"
        /\ AnsweredCode(q, StatusInternalServerError)
        /\ NumWrites(q) = 1

(***************************************************************************)
(* C10: a request makes at most two publish attempts and at most one       *)
(* topic-creation attempt, whatever the broker answers; when the retried   *)
(* publish fails the request is answered 500 and makes no further call.    *)
(***************************************************************************)
C10_AtMostOneRetry ==
    \A r \in Slots :
        LET q == reqs[r] IN
        /\ NumWrites(q) <= 2
        /\ Cardinality(CallsTo(q, "CreateTopicIfNotExists")) <= 1
        /\ Cardinality(CallsTo(q, "CreateTopics")) <= 1
        /\ (NumWrites(q) = 2 /\ ErrOf(q.calls[SecondWrite(q)]) # Nil)
           => /\ q.pc = "done"
              /\ AnsweredCode(q, StatusInternalServerError)
              /\ SecondWrite(q) = Len(q.calls)

C10_Witness ==
    \E r \in Slots :
        LET q == reqs[r] IN
        /\ q.pc = "done"
        /\ NumWrites(q) = 2
        /\ CallsTo(q, "CreateTopicIfNotExists") # {}
        /\ ErrOf(q.calls[SecondWrite(q)]) = "Unknown Topic Or Partition"
        /\ AnsweredCode(q, StatusInternalServerError)

(***************************************************************************)
(* C11: when two requests in flight at the same time both call topic       *)
(* creation for the same topic, at most one of them sees the topic freshly *)
(* created; each one the broker answers with "created" or "already         *)
(* exists" has its creation count as a success and retries its publish     *)
(* once, and is answered 202 when the broker accepts the retry.            *)
(***************************************************************************)
CreationSucceededAt(q, c) ==
    /\ c + 1 \in CallsTo(q, "CreateTopicIfNotExists")
    /\ ErrOf(q.calls[c + 1]) = Nil
    /\ q.pc \in {"retry", "done"}
    /\ q.pc = "done" =>
          /\ NumWrites(q) = 2
          /\ ErrOf(q.calls[SecondWrite(q)]) = Nil => Answered(q, StatusAccepted, "OK")

GateWasReady(q) == q.calls # <<>> /\ q.calls[1] = Call("IsReady", <<>>, <<"true">>)

(***************************************************************************)
(* C12, as stated: a POST with a malformed JSON body is answered 400 and   *)
(* no collaborator (readiness included) was called for it.                 *)
(***************************************************************************)
C12_MalformedBodyNoCallAtAll ==
    \A r \in Slots :
        LET q == reqs[r] IN
        (q.pc = "done" /\ q.method = "POST" /\ DecodeError(q.body) # Nil)
        => AnsweredCode(q, StatusBadRequest) /\ q.calls = <<>>

(***************************************************************************)
(* C12, amended: a POST with a malformed JSON body that arrives while the  *)
(* readiness gate reports ready is answered 400, and the readiness gate is *)
(* the only collaborator called for it.                                    *)
(***************************************************************************)
C12_MalformedBodyIsBadRequest ==
    \A r \in Slots :
        LET q == reqs[r] IN
        (q.method = "POST" /\ DecodeError(q.body) # Nil /\ GateWasReady(q))
        => /\ q.pc = "done"
           /\ AnsweredCode(q, StatusBadRequest)
           /\ Len(q.calls) = 1

C12_Witness ==
    \E r \in Slots :
        LET q == reqs[r] IN
        /\ q.method = "POST"
        /\ q.body.kind = "truncated"
        /\ q.header = "Basic alice:secret"
        /\ GateWasReady(q)
        /\ AnsweredCode(q, StatusBadRequest)

(***************************************************************************)
(* C13: a POST whose body is valid JSON without a stream_id, or without a  *)
(* request object, arriving while the gate is ready, is answered 400       *)
(* before any other collaborator is called.                                *)
(***************************************************************************)
C13_MissingFieldsAreBadRequest ==
    \A r \in Slots :
        LET q == reqs[r] IN
        ( /\ q.pc \in {"done", "panicked"}
          /\ q.method = "POST"
          /\ q.body.kind = "json"
          /\ (q.body.stream_id = <<>> \/ q.body.request = <<>>)
          /\ GateWasReady(q) )
        => AnsweredCode(q, StatusBadRequest) /\ Len(q.calls) = 1

(***************************************************************************)
(* C14: a request whose method is not POST is answered 405 whatever its    *)
(* headers, its body and the readiness state, and no collaborator is       *)
(* called for it.                                                          *)
(***************************************************************************)
C14_OnlyPostIsAccepted ==
    \A r \in Slots :
        LET q == reqs[r] IN
        (q.pc # "idle" /\ q.method # "POST")
        => /\ q.pc = "done"
           /\ Answered(q, StatusMethodNotAllowed, ErrorBody("Method not allowed"))
           /\ q.calls = <<>>

C14_Witness ==
    \E r \in Slots :
        LET q == reqs[r] IN
        /\ q.method = "GET"
        /\ WellFormed(q.body)
        /\ Grants(q.header, q.body.stream_id[1], "write")
        /\ IsReady
        /\ Answered(q, StatusMethodNotAllowed, ErrorBody("Method not allowed"))

(***************************************************************************)
(* C15: a POST carrying credentials that are valid for another stream than *)
(* the envelope's stream_id is never answered 202 or 404 and publishes     *)
(* nothing; once its credentials are verified it is answered 401.          *)
(***************************************************************************)
ValidForAnotherStream(q) ==
    /\ q.method = "POST"
    /\ q.body.kind = "json"
    /\ \E s \in StreamIds :
          /\ q.body.stream_id = <<s>>
          /\ ~Grants(q.header, s, "write")
          /\ \E o \in StreamIds \ {s} : Grants(q.header, o, "write")

C15_OtherStreamsCredentialsRejected ==
    \A r \in Slots :
        LET q == reqs[r] IN
        ValidForAnotherStream(q)
        => /\ \A i \in DOMAIN q.resp :
                 q.resp[i].code \notin {StatusAccepted, StatusNotFound}
           /\ \A fn \in PublisherCalls \cup {"GetStreamTopic"} : CallsTo(q, fn) = {}
           /\ CallsTo(q, "AuthenticateHTTPRequest") # {}
                 => q.pc = "done" /\ AnsweredCode(q, StatusUnauthorized)

C15_Witness ==
    \E r \in Slots :
        LET q == reqs[r] IN
        /\ q.header = "Basic bob:secret"
        /\ q.body.stream_id = <<"s1">>
        /\ q.body.request # <<>>
        /\ \E a \in CallsTo(q, "AuthenticateHTTPRequest") :
              ErrOf(q.calls[a]) = "not authorized for stream"
        /\ AnsweredCode(q, StatusUnauthorized)

\* the one response of an authentication failure
UnauthorizedResponse == <<[code |-> StatusUnauthorized, body |-> ErrorBody("Unauthorized")]>>

(***************************************************************************)
(* C16: whatever the cause of a failed credential verification (missing    *)
(* credentials, bad credentials, no permission on the stream, verifier     *)
(* error, cancelled context), the response is the same: status 401, body   *)
(* "Unauthorized", and the cause does not occur in it.                     *)
(***************************************************************************)
C16_AuthFailuresIndistinguishable ==
    \A r \in Slots :
        LET q == reqs[r] IN
        \A a \in CallsTo(q, "AuthenticateHTTPRequest") :
            ErrOf(q.calls[a]) # Nil
            => /\ q.resp = UnauthorizedResponse
               /\ ~Contains(q.resp[1].body, ErrOf(q.calls[a]))

C16_Witness ==
    \E r \in Slots :
        LET q == reqs[r] IN
        /\ q.header = "Basic alice:wrong"
        /\ \E a \in CallsTo(q, "AuthenticateHTTPRequest") :
              ErrOf(q.calls[a]) = "invalid credentials"
        /\ q.resp = UnauthorizedResponse

\* the internal error texts a request has met: the decoder's and its collaborators'
InternalCauses(q) ==
    (IF q.method = "POST" /\ DecodeError(q.body) # Nil THEN {DecodeError(q.body)} ELSE {})
    \cup {ErrOf(q.calls[i]) : i \in {j \in DOMAIN q.calls :
                                        /\ q.calls[j].fn # "IsReady"
                                        /\ ErrOf(q.calls[j]) # Nil}}

(***************************************************************************)
(* C17: no response body contains the text of an internal cause (decoder   *)
(* error, resolver error, broker error, topic creation error) the request  *)
(* has met.                                                                *)
(***************************************************************************)
C17_NoInternalCauseInResponse ==
    \A r \in Slots :
        LET q == reqs[r] IN
        \A i \in DOMAIN q.resp :
            \A cause \in InternalCauses(q) : ~Contains(q.resp[i].body, cause)

ClassifiedOutcomes ==
    {StatusAccepted, StatusBadRequest, StatusUnauthorized, StatusNotFound,
     StatusMethodNotAllowed, StatusServiceUnavailable, StatusInternalServerError}

(***************************************************************************)
(* C18: every request that has ended has exactly one response, with a      *)
(* status of the classified set 202, 400, 401, 404, 405, 503, 500.         *)
(***************************************************************************)
C18_EveryRequestClassified ==
    \A r \in Slots :
        LET q == reqs[r] IN
        q.pc \in {"done", "panicked"}
        => Len(q.resp) = 1 /\ q.resp[1].code \in ClassifiedOutcomes

\* the next step of the handler serving r, up to the release of its slot
HandlerStep(r) ==
    \/ Authenticate(r)
    \/ Resolve(r)
    \/ Write(r)
    \/ CreateTopic(r)
    \/ Retry(r)
    \/ Finish(r)

(***************************************************************************)
(* C19: no request failure is fatal to the process: a request in flight,   *)
(* whatever it has met, can always take its next step up to the release of *)
(* its slot, and once no request is in flight the gateway accepts the next *)
(* one.                                                                    *)
(***************************************************************************)
C19_NoFailureIsFatal ==
    /\ \A r \in Slots : reqs[r].pc # "idle" => ENABLED HandlerStep(r)
    /\ (InFlight = {} /\ served < MaxServed) => ENABLED Begin(1)

\* a request is answered 202 after the request before it failed
C19_Witness ==
    \E r \in Slots :
        LET q == reqs[r] IN
        /\ served >= 1
        /\ lastOutcome = <<StatusInternalServerError>>
        /\ WellFormed(q.body)
        /\ Answered(q, StatusAccepted, "OK")

(***************************************************************************)
(* C20: once the caller has cancelled a request, every collaborator call   *)
(* the handler still makes for it (topic resolution, publish, topic        *)
(* creation) is aborted: it returns the context's error.                   *)
(***************************************************************************)
C20_CancellationReachesEveryCall ==
    \A r \in Slots :
        LET q == reqs[r] IN
        CtxDone(q)
        => \A i \in DOMAIN q.calls :
              i > q.cancelledAt[1] => ErrOf(q.calls[i]) = CtxCanceled

(***************************************************************************)
(* C21: no step of a request (arrival, collaborator call, answer, release, *)
(* cancellation) changes the readiness state database_ok, broker_ok; a     *)
(* step that changes it is the background refresh and touches no request.  *)
(***************************************************************************)
C21_RequestPathLeavesHealthAlone ==
    [][ /\ reqs' # reqs => health' = health
        /\ health' # health => UNCHANGED <<reqs, topics, served, lastOutcome>> ]_vars

\* a request went through creation and a failed retry, and the gate still says ready
C21_Witness ==
    \E r \in Slots :
        LET q == reqs[r] IN
        /\ IsReady
        /\ q.pc = "done"
        /\ NumWrites(q) = 2
        /\ AnsweredCode(q, StatusInternalServerError)

\* the events of a kind the request has emitted
Events(q, kinds) == {i \in DOMAIN q.metrics : q.metrics[i][1] \in kinds}

(***************************************************************************)
(* C22: every request that has ended has emitted exactly one               *)
(* authentication-result event and exactly one publish event (published or *)
(* publish error).                                                         *)
(***************************************************************************)
C22_OneAuthEventOnePublishEvent ==
    \A r \in Slots :
        LET q == reqs[r] IN
        q.pc \in {"done", "panicked"}
        => /\ Cardinality(Events(q, {"auth_failure", "auth_success"})) = 1
           /\ Cardinality(Events(q, {"message_published", "publish_error"})) = 1

\* the topic argument of a publisher call
TopicOf(c) == IF c.fn = "CreateTopicIfNotExists" THEN c.args[2] ELSE c.args[1]

(***************************************************************************)
(* C23: in every publish attempt and every topic creation call of a        *)
(* request the topic is the one the resolver returned to that request for  *)
(* its stream_id, and the retried publish carries the topic, the key (the  *)
(* request_id) and the serialized value of the first attempt.              *)
(***************************************************************************)
C23_TopicFromResolverRetryUnchanged ==
    \A r \in Slots :
        LET q == reqs[r] IN
        /\ \A i \in DOMAIN q.calls :
              q.calls[i].fn \in PublisherCalls
              => /\ \E g \in CallsTo(q, "GetStreamTopic") :
                       /\ g < i
                       /\ q.calls[g].args = <<q.body.stream_id[1]>>
                       /\ q.calls[g].res = <<TopicOf(q.calls[i]), Nil>>
                 /\ TopicOf(q.calls[i]) = StreamTopic(q.body.stream_id[1])
        /\ NumWrites(q) = 2
              => /\ q.calls[SecondWrite(q)].args = q.calls[FirstWrite(q)].args
                 /\ q.calls[SecondWrite(q)].args[2] = q.body.request[1].RequestId
                 /\ q.calls[SecondWrite(q)].args[3] = Marshal(q.body.request)

C23_Witness ==
    \E r \in Slots :
        LET q == reqs[r] IN
        /\ q.body.stream_id = <<"s2">>
        /\ q.body.request # <<>>
        /\ q.body.request[1].RequestId = "r2"
        /\ \E c \in CallsTo(q, "CreateTopics") : q.calls[c].args = <<"t2">>
        /\ NumWrites(q) = 2
        /\ q.calls[SecondWrite(q)].args = <<"t2", "r2", Marshal(q.body.request)>>

(***************************************************************************)
(* C24: a request is answered 202 only when its last publish attempt (the  *)
(* first one, or the single retry) returned success; never when every      *)
(* attempt failed or none was made.                                        *)
(***************************************************************************)
C24_AcceptedOnlyAfterSuccessfulPublish ==
    \A r \in Slots :
        LET q == reqs[r] IN
        \A i \in DOMAIN q.resp :
            q.resp[i].code = StatusAccepted
            => /\ NumWrites(q) \in {1, 2}
               /\ \E w \in CallsTo(q, "WriteMessages") :
                     /\ ErrOf(q.calls[w]) = Nil
                     /\ \A o \in CallsTo(q, "WriteMessages") : o <= w

\* accepted by the retry: the first attempt failed, the topic was created, the retry passed
C24_Witness ==
    \E r \in Slots :
        LET q == reqs[r] IN
        /\ NumWrites(q) = 2
        /\ ErrOf(q.calls[FirstWrite(q)]) = "Unknown Topic Or Partition"
        /\ \E c \in CallsTo(q, "CreateTopics") : ErrOf(q.calls[c]) = Nil
        /\ ErrOf(q.calls[SecondWrite(q)]) = Nil
        /\ Answered(q, StatusAccepted, "OK")

(***************************************************************************)
(* C25: every request that has ended has recorded exactly one request      *)
(* metric, and the status it records is the status written to the caller.  *)
(***************************************************************************)
C25_MetricMatchesWrittenStatus ==
    \A r \in Slots :
        LET q == reqs[r] IN
        q.pc \in {"done", "panicked"}
        => /\ Cardinality(Events(q, {"ingest_request"})) = 1
           /\ Len(q.resp) = 1
           /\ \A i \in Events(q, {"ingest_request"}) :
                 q.metrics[i] = <<"ingest_request", q.method, "/ingest", Itoa(q.resp[1].code)>>

====
